---- MODULE Spec2Model ----
(***************************************************************************)
(* A model of fang: a Postgres-backed job queue (fang_tasks and            *)
(* fang_periodic_tasks), the claim protocol of Queue::fetch_and_touch,     *)
(* the Executor loop and the client-side Queue operations.                 *)
(*                                                                         *)
(* The database is modelled by its committed contents (tasks, periodic)    *)
(* and by the row locks that open transactions hold (locks).  A statement  *)
(* run outside a transaction is one atomic step.  The transaction of       *)
(* fetch_and_touch takes two steps: the SELECT ... FOR UPDATE SKIP LOCKED, *)
(* which leaves the row locked, and the UPDATE together with the COMMIT    *)
(* (an uncommitted UPDATE is visible to no other session, so the two are   *)
(* one step for every observer); a failing UPDATE rolls back instead.      *)
(*                                                                         *)
(* The WorkerPool is modelled by its shared flag, by the join handles      *)
(* shutdown() has drained and still waits for (pool), and by the restarts  *)
(* of every worker name (wk); the Scheduler by its place in schedule_loop  *)
(* and the periodic rows of the scan as it loaded them (sch); the back-off *)
(* of an executor by its SleepParams (sleep_params).                       *)
(***************************************************************************)
EXTENDS Integers, FiniteSets, Sequences, TLC

\* ------------------------------------------------------------ bounds
MaxTasks == 2        \* rows ever inserted into fang_tasks
MaxPeriodic == 2     \* rows ever inserted into fang_periodic_tasks
MaxTime == 1         \* the clock runs from 0 to MaxTime
MaxRestarts == 1     \* restarts of one worker thread
MaxSleep == 4        \* the largest period and step of the SleepParams tried
MaxIdle == 3         \* unproductive iterations in a row
MaxClock == 6        \* the clock of a scheduler's run goes from 0 to MaxClock

\* ------------------------------------------------------------ values
Workers == {"worker_1", "worker_2"}
Clients == {"client_1", "client_2"}
Sessions == Workers \cup Clients

NoType == "none"           \* Option<String>::None of a task_type filter
NoError == "null"          \* error_message IS NULL
NoTask == 0                \* Option<Task>::None; ids of rows start at 1
Null == -1                 \* scheduled_at IS NULL

\* The jobs of the tests: Job { number } has the default task_type, JobType1
\* overrides it.
Jobs == {[tag |-> "Job", number |-> 10], [tag |-> "JobType1", number |-> 0]}

\* typetag's tagged document: { "type": <tag>, ...fields }.
Serialize(job) == [type |-> job.tag, number |-> job.number]

\* The document of the tests' json!(true) rows: no job has it.
BadDoc == [type |-> "true", number |-> 0]

Docs == {Serialize(j) : j \in Jobs} \cup {BadDoc}

\* The document of Job { number: 10 }.
JobDoc == [type |-> "Job", number |-> 10]

Deserializable(doc) == \E j \in Jobs : Serialize(j) = doc

Deserialize(doc) == CHOOSE j \in Jobs : Serialize(j) = doc

TaskTypeOf(job) == IF job.tag = "JobType1" THEN "type1" ELSE "common"

TaskTypes == {"common", "type1"}

RetentionModes == {"KeepAll", "RemoveAll", "RemoveFinished"}

ErrDescription == "the number is 10"

\* period_in_seconds of the periodic tasks pushed.
Periods == {1, 2}

VARIABLES
    tasks,       \* fang_tasks: id -> row, the committed rows
    locks,       \* row locks of open transactions: <<id, session>>
    nextId,      \* the next fresh id of fang_tasks
    periodic,    \* fang_periodic_tasks: id -> row
    nextPid,     \* the next fresh id of fang_periodic_tasks
    now,         \* the clock (Utc::now, and now() of the database)
    params,      \* WorkerParams of the pool: retention_mode, task_type
    wk,          \* worker threads: position in run_tasks, claimed row
    cl,          \* client sessions: position, open transaction, last call
    hist,        \* history of each row of fang_tasks: who claimed it, how often
    pool,        \* WorkerPool: the shared run/shutdown flag, shutdown()'s position
    sch,         \* the scheduler thread: position in schedule, rows of its scan
    sleep_params,  \* SleepParams of the executor whose back-off is followed
    unproductive   \* its unproductive iterations since sleep_period was min

vars == <<tasks, locks, nextId, periodic, nextPid, now, params, wk, cl, hist,
          pool, sch, sleep_params, unproductive>>

\* What the Queue operations and the steps of a worker leave alone.
restVars == <<pool, sch, sleep_params, unproductive>>

\* The back-off of the executor that is followed.
backoffVars == <<sleep_params, unproductive>>

dbVars == <<tasks, locks, nextId, periodic, nextPid>>

\* ------------------------------------------------------------ rows
\* INSERT INTO fang_tasks (metadata, task_type): the other columns take the
\* defaults of the table.
NewRow(doc, type, t) ==
    [metadata |-> doc, error_message |-> NoError, state |-> "New",
     task_type |-> type, created_at |-> t, updated_at |-> t]

NewHist == [by |-> {}, claims |-> 0, runs |-> 0, direct |-> FALSE]

Remove(f, id) == [i \in DOMAIN f \ {id} |-> f[i]]

LockedByOther(id, s) == \E o \in Sessions \ {s} : <<id, o>> \in locks

\* Unlock leaving the locks of the session in place.
Unlock_keep(s) == locks

\* COMMIT or ROLLBACK of session s: its row locks go.
Unlock(s) == {l \in locks : l[2] # s}

\* Oldest with the order reversed (ORDER BY created_at DESC).
Youngest(S) == {id \in S : \A j \in S : tasks[id].created_at >= tasks[j].created_at}

\* ORDER BY created_at ASC LIMIT 1: the rows of S that may come first.
Oldest(S) == {id \in S : \A j \in S : tasks[id].created_at <= tasks[j].created_at}

\* fetch_any_task_query with its state filter dropped.
fetch_any_task_any_state(s) ==
    Oldest({id \in DOMAIN tasks : ~LockedByOther(id, s)})

\* fetch_any_task_query without SKIP LOCKED.
fetch_any_task_no_skip(s) ==
    Oldest({id \in DOMAIN tasks : tasks[id].state = "New"})

\* fetch_any_task_query taking up rows left InProgress as well.
fetch_any_task_in_progress(s) ==
    Oldest({id \in DOMAIN tasks :
              /\ tasks[id].state \in {"New", "InProgress"}
              /\ ~LockedByOther(id, s)})

\* The result of each query is the set of rows it may return: empty is None.
fetch_any_task_query(s) ==
    Oldest({id \in DOMAIN tasks :
              /\ tasks[id].state = "New"
              /\ ~LockedByOther(id, s)})

\* fetch_task_of_type_query with its task_type filter dropped.
fetch_task_of_type_unfiltered(s, type) ==
    Oldest({id \in DOMAIN tasks :
              /\ tasks[id].state = "New"
              /\ ~LockedByOther(id, s)})

fetch_task_of_type_query(s, type) ==
    Oldest({id \in DOMAIN tasks :
              /\ tasks[id].state = "New"
              /\ tasks[id].task_type = type
              /\ ~LockedByOther(id, s)})

fetch_task_query(s, type) ==
    IF type = NoType THEN fetch_any_task_query(s)
                     ELSE fetch_task_of_type_query(s, type)

\* find_task_by_metadata_query with its state filter dropped.
find_task_by_metadata_any_state(doc) ==
    {id \in DOMAIN tasks : tasks[id].metadata = doc}

\* .first() with no ORDER BY: any New or InProgress row of that metadata.
find_task_by_metadata_query(doc) ==
    {id \in DOMAIN tasks :
        /\ tasks[id].metadata = doc
        /\ tasks[id].state \in {"New", "InProgress"}}

find_periodic_task_by_metadata_query(doc) ==
    {id \in DOMAIN periodic : periodic[id].metadata = doc}

\* start_processing_task_query bumping updated_at alone.
start_processing_task_no_state(row, t) == [row EXCEPT !.updated_at = t]

\* UPDATE fang_tasks SET ... WHERE id = task.id: whatever the row's state.
start_processing_task_query(row, t) ==
    [row EXCEPT !.state = "InProgress", !.updated_at = t]

\* finish_task_query writing NULL to error_message as well.
finish_task_clears_error(row, t) ==
    [row EXCEPT !.state = "Finished", !.error_message = NoError, !.updated_at = t]

finish_task_query(row, t) ==
    [row EXCEPT !.state = "Finished", !.updated_at = t]

\* fail_task_query putting the row back in the queue.
fail_task_requeue(row, error, t) ==
    [row EXCEPT !.state = "New", !.error_message = error, !.updated_at = t]

\* fail_task_query leaving error_message as it is.
fail_task_no_message(row, error, t) ==
    [row EXCEPT !.state = "Failed", !.updated_at = t]

fail_task_query(row, error, t) ==
    [row EXCEPT !.state = "Failed", !.error_message = error, !.updated_at = t]

\* for_update with the lock dropped at the end of the statement.
for_update_no_lock(s, id, inTx) == locks

\* SELECT ... FOR UPDATE: inside a transaction the lock on the row lasts until
\* the transaction ends; outside one it ends with the statement.
for_update(s, id, inTx) == IF inTx THEN locks \cup {<<id, s>>} ELSE locks

\* ------------------------------------------------------------ initial state
\* A worker thread at the top of the loop of run_tasks, holding no row.
NewWorker(restarts) ==
    [pc |-> "loop", task |-> NoTask, metadata |-> BadDoc, outcome |-> "none",
     restarts |-> restarts]

\* WorkerThread::new and spawn_thread: the thread has started and has not yet
\* asked the pool for its connection.
WorkerThread(restarts) == [NewWorker(restarts) EXCEPT !.pc = "start"]

\* A worker name that start() has not come to yet: no thread of it exists.
NoThread == [NewWorker(0) EXCEPT !.pc = "unspawned"]

number_of_workers == Cardinality(Workers)

\* WorkerPool::new: the flag is Running, thread_join_handles is empty, and
\* neither start() nor shutdown() has been called.  start counts the threads
\* start() has spawned; thread_join_handles maps a name to the restarts of
\* the thread whose handle it holds.
NewPool ==
    [shared_state |-> "Running", shutdown |-> "idle", joining |-> {},
     start |-> 0, thread_join_handles |-> <<>>]

\* The pool when start() has returned.
StartedPool ==
    [NewPool EXCEPT !.start = number_of_workers,
                    !.thread_join_handles = [w \in Workers |-> 0]]

\* The scheduler thread between two scans.
NewScheduler == [pc |-> "sleep", todo |-> <<>>, task |-> NoTask, seeded |-> {}]

\* SleepParams::default.
DefaultSleepParams ==
    [sleep_period |-> 5, max_sleep_period |-> 15, min_sleep_period |-> 5,
     sleep_step |-> 5]

\* SleepParams as an executor starts with them: sleep_period = min.
SleepParamsTried ==
    {DefaultSleepParams} \cup
    {[sleep_period |-> lo, max_sleep_period |-> hi, min_sleep_period |-> lo,
      sleep_step |-> step] : lo \in 1..MaxSleep, hi \in 1..MaxSleep, step \in 1..MaxSleep}

\* No rows, the pool p, and every thread of the pool in the state thread0.
InitOf(sp, thread0, p) ==
    /\ pool = p
    /\ sch = NewScheduler
    /\ sleep_params = sp
    /\ unproductive = 0
    /\ tasks = <<>>
    /\ locks = {}
    /\ nextId = 1
    /\ periodic = <<>>
    /\ nextPid = 1
    /\ now = 0
    /\ params \in [retention_mode : RetentionModes, task_type : {NoType, "type1"}]
    /\ wk = [w \in Workers |-> thread0]
    /\ cl = [c \in Clients |-> [pc |-> "ready", tx |-> FALSE, op |-> "none",
                                doc |-> BadDoc, period |-> 0, ret |-> NoTask]]
    /\ hist = <<>>

\* The state after WorkerPool::new and start.
InitWith(sp, thread0) == InitOf(sp, thread0, StartedPool)

\* The threads of the pool have their connections and enter run_tasks.
Init == InitWith(DefaultSleepParams, NewWorker(0))

\* ------------------------------------------------------------ the clock
\* A second passes, up to the second max.
TickTo(max) ==
    /\ now < max
    /\ now' = now + 1
    /\ UNCHANGED <<dbVars, params, restVars, wk, cl, hist>>

Tick == TickTo(MaxTime)

\* ------------------------------------------------------------ Queue::push_task
\* Rows the model may still insert: every session between its lookup and its
\* INSERT has one reserved.
PendingInserts ==
    Cardinality({c \in Clients : cl[c].pc = "push_task"})
        + (IF sch.pc = "push_task" THEN 1 ELSE 0)

\* push_task_query, the lookup: an existing row is returned at once.
push_task_find(c, job) ==
    /\ cl[c].pc = "ready"
    /\ ~cl[c].tx
    /\ LET doc == Serialize(job)
           found == find_task_by_metadata_query(doc)
       IN  IF found # {}
           THEN \E id \in found :
                  cl' = [cl EXCEPT ![c].op = "push_task", ![c].doc = doc, ![c].ret = id]
           ELSE /\ nextId + PendingInserts <= MaxTasks
                /\ cl' = [cl EXCEPT ![c].pc = "push_task", ![c].op = "push_task",
                                    ![c].doc = doc, ![c].ret = NoTask]
    /\ UNCHANGED <<dbVars, now, params, restVars, wk, hist>>

\* push_task_query, the None arm: insert_query of the serialized job.
push_task_insert(c) ==
    /\ cl[c].pc = "push_task"
    /\ tasks' = tasks @@ (nextId :> NewRow(cl[c].doc, TaskTypeOf(Deserialize(cl[c].doc)), now))
    /\ hist' = hist @@ (nextId :> NewHist)
    /\ nextId' = nextId + 1
    /\ cl' = [cl EXCEPT ![c].pc = "ready", ![c].ret = nextId]
    /\ UNCHANGED <<locks, periodic, nextPid, now, params, restVars, wk>>

\* Queue::insert of a NewTask built by the caller, as the tests do with
\* json!(true): the document need not be one of a job.
insert(c, doc, type) ==
    /\ cl[c].pc = "ready"
    /\ ~cl[c].tx
    /\ nextId + PendingInserts <= MaxTasks
    /\ tasks' = tasks @@ (nextId :> NewRow(doc, type, now))
    /\ hist' = hist @@ (nextId :> NewHist)
    /\ nextId' = nextId + 1
    /\ cl' = [cl EXCEPT ![c].op = "insert", ![c].doc = doc, ![c].ret = nextId]
    /\ UNCHANGED <<locks, periodic, nextPid, now, params, restVars, wk>>

\* ------------------------------------------------------------ Queue::push_periodic_task
\* INSERT INTO fang_periodic_tasks (metadata, period_in_seconds): scheduled_at
\* is left NULL.
NewPeriodicRow(doc, period, t) ==
    [metadata |-> doc, period_in_seconds |-> period, scheduled_at |-> Null,
     created_at |-> t, updated_at |-> t]

PendingPeriodicInserts ==
    Cardinality({c \in Clients : cl[c].pc = "push_periodic_task"})

\* push_periodic_task_query, the lookup: an existing row is returned at once.
push_periodic_task_find(c, job, period) ==
    /\ cl[c].pc = "ready"
    /\ ~cl[c].tx
    /\ LET doc == Serialize(job)
           found == find_periodic_task_by_metadata_query(doc)
       IN  IF found # {}
           THEN \E id \in found :
                  cl' = [cl EXCEPT ![c].op = "push_periodic_task", ![c].doc = doc,
                                   ![c].period = period, ![c].ret = id]
           ELSE /\ nextPid + PendingPeriodicInserts <= MaxPeriodic
                /\ cl' = [cl EXCEPT ![c].pc = "push_periodic_task",
                                    ![c].op = "push_periodic_task", ![c].doc = doc,
                                    ![c].period = period, ![c].ret = NoTask]
    /\ UNCHANGED <<dbVars, now, params, restVars, wk, hist>>

\* push_periodic_task_query, the None arm: the INSERT.
push_periodic_task_insert(c) ==
    /\ cl[c].pc = "push_periodic_task"
    /\ periodic' = periodic @@ (nextPid :> NewPeriodicRow(cl[c].doc, cl[c].period, now))
    /\ nextPid' = nextPid + 1
    /\ cl' = [cl EXCEPT ![c].pc = "ready", ![c].ret = nextPid]
    /\ UNCHANGED <<tasks, locks, nextId, now, params, restVars, wk, hist>>

\* schedule_next_task_execution writing the period alone.
schedule_next_task_execution_no_now(c, id) ==
    /\ cl[c].pc = "ready"
    /\ ~cl[c].tx
    /\ id \in DOMAIN periodic
    /\ periodic' = [periodic EXCEPT
                       ![id].scheduled_at = periodic[id].period_in_seconds,
                       ![id].updated_at = now]
    /\ UNCHANGED <<tasks, locks, nextId, nextPid, now, params, restVars, wk, cl, hist>>

\* Queue::schedule_next_task_execution: an UPDATE by id.
schedule_next_task_execution(c, id) ==
    /\ cl[c].pc = "ready"
    /\ ~cl[c].tx
    /\ id \in DOMAIN periodic
    /\ periodic' = [periodic EXCEPT
                       ![id].scheduled_at = now + periodic[id].period_in_seconds,
                       ![id].updated_at = now]
    /\ UNCHANGED <<tasks, locks, nextId, nextPid, now, params, restVars, wk, cl, hist>>

\* ------------------------------------------------------------ Scheduler
\* What the scheduler thread remembers in sch: pc, its place in schedule_loop;
\* todo, the rows fetch_periodic_tasks loaded that the for loop has not
\* finished yet, as they were loaded; task, the row process_task is at;
\* seeded, the rows whose None arm this scan has run.

\* The margin the scheduler is started with in schedules_jobs.
error_margin_seconds == 2

\* The check_period the scheduler is started with in schedules_jobs.
check_period == 1

\* A period as in schedules_jobs: longer than the margin and the check_period
\* together.
LongPeriod == error_margin_seconds + check_period + 1

\* fetch_periodic_tasks_query without its upper limit.
fetch_periodic_tasks_no_high(margin) ==
    {id \in DOMAIN periodic :
        \/ periodic[id].scheduled_at = Null
        \/ periodic[id].scheduled_at > now - margin}

\* fetch_periodic_tasks_query without its lower limit.
fetch_periodic_tasks_no_low(margin) ==
    {id \in DOMAIN periodic :
        \/ periodic[id].scheduled_at = Null
        \/ periodic[id].scheduled_at < now + margin}

\* fetch_periodic_tasks_query: the rows never scheduled and those due within
\* the margin, both limits excluded.
fetch_periodic_tasks_query(margin) ==
    {id \in DOMAIN periodic :
        \/ periodic[id].scheduled_at = Null
        \/ /\ periodic[id].scheduled_at > now - margin
           /\ periodic[id].scheduled_at < now + margin}

\* Scheduler::schedule, the load: the for loop works on the rows as loaded.
schedule ==
    /\ sch.pc = "sleep"
    /\ LET loaded == fetch_periodic_tasks_query(error_margin_seconds)
       IN  sch' = [pc |-> "for", todo |-> [id \in loaded |-> periodic[id]],
                   task |-> NoTask, seeded |-> {}]
    /\ UNCHANGED <<dbVars, now, params, pool, sleep_params, unproductive, wk, cl, hist>>

\* A Some arm that leaves push_task out.
process_task_Some_no_push(id) ==
    /\ sch.pc = "for"
    /\ id \in DOMAIN sch.todo
    /\ sch.todo[id].scheduled_at # Null
    /\ sch' = [sch EXCEPT !.pc = "schedule_next", !.task = id]
    /\ UNCHANGED <<dbVars, now, params, pool, sleep_params, unproductive, wk, cl, hist>>

\* A Some arm whose push_task inserts without looking for a row of the job.
process_task_Some_no_lookup(id) ==
    /\ sch.pc = "for"
    /\ id \in DOMAIN sch.todo
    /\ sch.todo[id].scheduled_at # Null
    /\ Deserializable(sch.todo[id].metadata)
    /\ nextId + PendingInserts <= MaxTasks
    /\ sch' = [sch EXCEPT !.pc = "push_task", !.task = id]
    /\ UNCHANGED <<dbVars, now, params, pool, sleep_params, unproductive, wk, cl, hist>>

\* process_task, the Some arm up to the lookup of push_task: the metadata is
\* deserialized and a New or InProgress row of that job is returned as it is.
process_task_Some(id) ==
    /\ sch.pc = "for"
    /\ id \in DOMAIN sch.todo
    /\ sch.todo[id].scheduled_at # Null
    /\ Deserializable(sch.todo[id].metadata)
    /\ IF find_task_by_metadata_query(sch.todo[id].metadata) # {}
       THEN sch' = [sch EXCEPT !.pc = "schedule_next", !.task = id]
       ELSE /\ nextId + PendingInserts <= MaxTasks
            /\ sch' = [sch EXCEPT !.pc = "push_task", !.task = id]
    /\ UNCHANGED <<dbVars, now, params, pool, sleep_params, unproductive, wk, cl, hist>>

\* process_task, the Some arm: the INSERT of push_task.
process_task_push_task ==
    /\ sch.pc = "push_task"
    /\ LET doc == sch.todo[sch.task].metadata
       IN  tasks' = tasks @@ (nextId :> NewRow(doc, TaskTypeOf(Deserialize(doc)), now))
    /\ hist' = hist @@ (nextId :> NewHist)
    /\ nextId' = nextId + 1
    /\ sch' = [sch EXCEPT !.pc = "schedule_next"]
    /\ UNCHANGED <<locks, periodic, nextPid, now, params, pool, sleep_params,
                   unproductive, wk, cl>>

\* process_task, the Some arm: the INSERT of push_task returns an error and
\* unwrap() panics.  The thread unwinds and Drop for Scheduler calls
\* start_new, which spawns a new scheduler thread; the old thread is gone.
process_task_push_task_failed ==
    /\ sch.pc = "push_task"
    /\ sch' = [NewScheduler EXCEPT !.pc = "start_new"]
    /\ UNCHANGED <<dbVars, now, params, pool, sleep_params, unproductive, wk, cl, hist>>

\* The closure of start_new up to schedule_loop: Queue::new() connects to the
\* database, and with the connection the new scheduler begins with a scan of
\* its own.  Without one Queue::new() panics before a Scheduler value exists:
\* the thread ends and nothing is there to start another.
start_new(connection) ==
    /\ sch.pc = "start_new"
    /\ sch' = IF connection = "Ok" THEN NewScheduler
                                   ELSE [NewScheduler EXCEPT !.pc = "ended"]
    /\ UNCHANGED <<dbVars, now, params, pool, sleep_params, unproductive, wk, cl, hist>>

\* process_task, the Some arm: schedule_next_task_execution ends it.  The
\* period is the one of the row as loaded.
process_task_schedule_next ==
    /\ sch.pc = "schedule_next"
    /\ LET id == sch.task
       IN  /\ periodic' = [periodic EXCEPT
                  ![id].scheduled_at = now + sch.todo[id].period_in_seconds,
                  ![id].updated_at = now]
           /\ sch' = [sch EXCEPT !.pc = "for", !.task = NoTask,
                                 !.todo = [i \in DOMAIN sch.todo \ {id} |-> sch.todo[i]]]
    /\ UNCHANGED <<tasks, locks, nextId, nextPid, now, params, pool, sleep_params,
                   unproductive, wk, cl, hist>>

\* A None arm that goes on to push the job as the Some arm does.
process_task_None_pushes(id) ==
    /\ sch.pc = "for"
    /\ id \in DOMAIN sch.todo
    /\ sch.todo[id].scheduled_at = Null
    /\ IF find_task_by_metadata_query(sch.todo[id].metadata) # {}
       THEN sch' = [sch EXCEPT !.pc = "schedule_next", !.task = id]
       ELSE /\ nextId + PendingInserts <= MaxTasks
            /\ sch' = [sch EXCEPT !.pc = "push_task", !.task = id]
    /\ UNCHANGED <<dbVars, now, params, pool, sleep_params, unproductive, wk, cl, hist>>

\* process_task, the None arm: schedule_next_task_execution and nothing else.
process_task_None(id) ==
    /\ sch.pc = "for"
    /\ id \in DOMAIN sch.todo
    /\ sch.todo[id].scheduled_at = Null
    /\ periodic' = [periodic EXCEPT
           ![id].scheduled_at = now + sch.todo[id].period_in_seconds,
           ![id].updated_at = now]
    /\ sch' = [sch EXCEPT !.todo = [i \in DOMAIN sch.todo \ {id} |-> sch.todo[i]],
                          !.seeded = sch.seeded \cup {id}]
    /\ UNCHANGED <<tasks, locks, nextId, nextPid, now, params, pool, sleep_params,
                   unproductive, wk, cl, hist>>

\* The for loop is through: schedule returns and the thread sleeps
\* check_period.
schedule_return ==
    /\ sch.pc = "for"
    /\ sch.todo = <<>>
    /\ sch' = [sch EXCEPT !.pc = "sleep"]
    /\ UNCHANGED <<dbVars, now, params, pool, sleep_params, unproductive, wk, cl, hist>>

\* One step of the scheduler thread.
schedule_loop ==
    \/ schedule
    \/ \E id \in DOMAIN sch.todo : process_task_None(id)
    \/ \E id \in DOMAIN sch.todo : process_task_Some(id)
    \/ process_task_push_task
    \/ process_task_push_task_failed
    \/ \E connection \in {"Ok", "Err"} : start_new(connection)
    \/ process_task_schedule_next
    \/ schedule_return

\* ------------------------------------------------------------ Queue, called directly
\* connection.transaction(|| ...) of a client opens; inside it the client
\* calls fetch_task alone, as fetch_task_locks_the_record does.
begin(c) ==
    /\ cl[c].pc = "ready"
    /\ ~cl[c].tx
    /\ cl' = [cl EXCEPT ![c].tx = TRUE, ![c].op = "begin", ![c].ret = NoTask]
    /\ UNCHANGED <<dbVars, now, params, restVars, wk, hist>>

\* The transaction of the client ends and its row locks go.
end(c) ==
    /\ cl[c].tx
    /\ cl' = [cl EXCEPT ![c].tx = FALSE, ![c].op = "end"]
    /\ locks' = Unlock(c)
    /\ UNCHANGED <<tasks, nextId, periodic, nextPid, now, params, restVars, wk, hist>>

\* Queue::fetch_task: the row found is locked for as long as the session's
\* transaction lasts.
fetch_task(c, type) ==
    /\ cl[c].pc = "ready"
    /\ LET found == fetch_task_query(c, type)
       IN  IF found = {}
           THEN /\ cl' = [cl EXCEPT ![c].op = "fetch_task", ![c].ret = NoTask]
                /\ UNCHANGED locks
           ELSE \E id \in found :
                  /\ cl' = [cl EXCEPT ![c].op = "fetch_task", ![c].ret = id]
                  /\ locks' = for_update(c, id, cl[c].tx)
    /\ UNCHANGED <<tasks, nextId, periodic, nextPid, now, params, restVars, wk, hist>>

\* A client holds a Task and calls start_processing_task, finish_task or
\* fail_task with it: an UPDATE by id, which waits for a lock on the row.
CanUpdate(c, id) ==
    /\ cl[c].pc = "ready"
    /\ ~cl[c].tx
    /\ id \in DOMAIN tasks
    /\ ~LockedByOther(id, c)

start_processing_task(c, id) ==
    /\ CanUpdate(c, id)
    /\ tasks' = [tasks EXCEPT ![id] = start_processing_task_query(@, now)]
    /\ hist' = [hist EXCEPT ![id].direct = TRUE]
    /\ UNCHANGED <<locks, nextId, periodic, nextPid, now, params, restVars, wk, cl>>

finish_task(c, id) ==
    /\ CanUpdate(c, id)
    /\ tasks' = [tasks EXCEPT ![id] = finish_task_query(@, now)]
    /\ hist' = [hist EXCEPT ![id].direct = TRUE]
    /\ UNCHANGED <<locks, nextId, periodic, nextPid, now, params, restVars, wk, cl>>

fail_task(c, id) ==
    /\ CanUpdate(c, id)
    /\ tasks' = [tasks EXCEPT ![id] = fail_task_query(@, "Failed", now)]
    /\ hist' = [hist EXCEPT ![id].direct = TRUE]
    /\ UNCHANGED <<locks, nextId, periodic, nextPid, now, params, restVars, wk, cl>>

\* A client calls remove_task or remove_tasks_of_type: a DELETE, which waits
\* for the locks on the rows it deletes.
CanDelete(c, ids) ==
    /\ cl[c].pc = "ready"
    /\ ~cl[c].tx
    /\ \A id \in ids : ~LockedByOther(id, c)

\* DELETE FROM fang_tasks WHERE <the rows ids>.
Delete(c, ids) ==
    /\ CanDelete(c, ids)
    /\ tasks' = [i \in DOMAIN tasks \ ids |-> tasks[i]]
    /\ hist' = [i \in DOMAIN hist \ ids |-> hist[i]]
    /\ UNCHANGED <<locks, nextId, periodic, nextPid, now, params, restVars, wk>>

\* remove_task_query filtering on the metadata of the row of that id.
remove_task_by_metadata(c, id) ==
    /\ Delete(c, {i \in DOMAIN tasks :
                    id \in DOMAIN tasks /\ tasks[i].metadata = tasks[id].metadata})
    /\ cl' = [cl EXCEPT ![c].op = "remove_task", ![c].ret = id]

\* Queue::remove_task: DELETE ... WHERE id = id; an id no row has deletes
\* nothing.
remove_task(c, id) ==
    /\ Delete(c, {i \in DOMAIN tasks : i = id})
    /\ cl' = [cl EXCEPT ![c].op = "remove_task", ![c].ret = id]

\* Queue::remove_tasks_of_type: DELETE ... WHERE task_type = type.
remove_tasks_of_type(c, type) ==
    /\ Delete(c, {i \in DOMAIN tasks : tasks[i].task_type = type})
    /\ cl' = [cl EXCEPT ![c].op = "remove_tasks_of_type", ![c].ret = NoTask]

\* ------------------------------------------------------------ WorkerThread
\* format!("worker_{}{}", worker_type, idx) of start() in a pool without a
\* task_type.
worker_name(idx) == IF idx = 1 THEN "worker_1" ELSE "worker_2"

\* spawn_in_pool after its spawn_thread: thread_join_handles.write() and the
\* insert of the new handle under the thread's name, which replaces the
\* handle of that name.  While shutdown() holds the write lock the caller
\* waits and the map stays as it is.
spawn_in_pool(name, restarts) ==
    IF pool.shutdown = "joining"
    THEN pool
    ELSE [pool EXCEPT !.thread_join_handles =
             [n \in DOMAIN @ \cup {name} |-> IF n = name THEN restarts ELSE @[n]]]

\* start() giving every thread the name of index 1.
start_one_name(idx) ==
    /\ pool.start = idx - 1
    /\ idx <= number_of_workers
    /\ wk' = [wk EXCEPT ![worker_name(1)] = WorkerThread(0)]
    /\ pool' = [spawn_in_pool(worker_name(1), 0) EXCEPT !.start = idx]
    /\ UNCHANGED <<dbVars, now, params, sch, backoffVars, cl, hist>>

\* WorkerPool::start, one turn of its loop: spawn_in_pool(name, 0).
start(idx) ==
    /\ pool.start = idx - 1
    /\ idx <= number_of_workers
    /\ wk' = [wk EXCEPT ![worker_name(idx)] = WorkerThread(0)]
    /\ pool' = [spawn_in_pool(worker_name(idx), 0) EXCEPT !.start = idx]
    /\ UNCHANGED <<dbVars, now, params, sch, backoffVars, cl, hist>>

\* Respawn passing restarts on as it is.
Respawn_same_restarts(w) == WorkerThread(wk[w].restarts)

\* Drop for WorkerThread of a thread that ends with graceful_shutdown unset:
\* spawn_in_pool starts a thread of the same name and one more restart.  The
\* new thread runs at once; the old one ends when it has put the new join
\* handle in thread_join_handles, for which it needs the write lock.
Respawn(w) == WorkerThread(wk[w].restarts + 1)

\* The closure of spawn_thread up to run_tasks: with a connection of the pool
\* the executor is set up and run_tasks starts; without one the thread logs
\* the error and ends, and its destructor spawns the next thread.
spawn_thread(w, connection) ==
    /\ wk[w].pc = "start"
    /\ IF connection = "Ok"
       THEN /\ wk' = [wk EXCEPT ![w] = NewWorker(wk[w].restarts)]
            /\ UNCHANGED pool
       ELSE /\ wk[w].restarts < MaxRestarts
            /\ wk' = [wk EXCEPT ![w] = Respawn(w)]
            /\ pool' = spawn_in_pool(w, wk[w].restarts + 1)
    /\ UNCHANGED <<dbVars, now, params, sch, cl, hist>>

\* run_tasks reads Shutdown at the top of an iteration and returns Ok:
\* graceful_shutdown is set, the thread ends and its destructor does nothing.
run_tasks_shutdown(w) ==
    /\ wk[w].pc = "loop"
    /\ pool.shared_state = "Shutdown"
    /\ wk' = [wk EXCEPT ![w].pc = "exited"]
    /\ UNCHANGED <<dbVars, now, params, restVars, cl, hist>>

\* ------------------------------------------------------------ WorkerPool::shutdown
\* The flag is set to Shutdown, the write lock on thread_join_handles is
\* taken and the map is drained: shutdown() holds the lock and the handles of
\* the threads running now until it has joined them all.
shutdown_begin ==
    /\ pool.shutdown = "idle"
    /\ pool' = [pool EXCEPT
                  !.shared_state = "Shutdown", !.shutdown = "joining",
                  !.joining = {<<n, pool.thread_join_handles[n]>> :
                                  n \in DOMAIN pool.thread_join_handles},
                  !.thread_join_handles = <<>>]
    /\ UNCHANGED <<dbVars, now, params, wk, cl, hist, sch, sleep_params, unproductive>>

\* join() returning without waiting for the thread.
Ended_at_once(h) == TRUE

\* The thread of that handle has ended: it returned from run_tasks and its
\* destructor had nothing to do.  A thread that panicked is still inside its
\* destructor, waiting for the write lock that shutdown() holds.
Ended(h) == wk[h[1]].restarts = h[2] /\ wk[h[1]].pc = "exited"

\* thread.join() of one drained handle returns.
shutdown_join(h) ==
    /\ pool.shutdown = "joining"
    /\ h \in pool.joining
    /\ Ended(h)
    /\ pool' = [pool EXCEPT !.joining = @ \ {h}]
    /\ UNCHANGED <<dbVars, now, params, wk, cl, hist, sch, sleep_params, unproductive>>

\* Every handle is joined: the lock is released and shutdown() returns Ok.
shutdown_return ==
    /\ pool.shutdown = "joining"
    /\ pool.joining = {}
    /\ pool' = [pool EXCEPT !.shutdown = "returned"]
    /\ UNCHANGED <<dbVars, now, params, wk, cl, hist, sch, sleep_params, unproductive>>

\* ------------------------------------------------------------ Queue::fetch_and_touch
\* fetch_and_touch_fetch in a loop that does not read the flag.
fetch_and_touch_fetch_no_flag(w) ==
    /\ wk[w].pc = "loop"
    /\ LET found == fetch_task_query(w, params.task_type)
       IN  IF found = {}
           THEN /\ wk' = [wk EXCEPT ![w].pc = "sleep"]
                /\ UNCHANGED locks
           ELSE \E id \in found :
                  /\ locks' = for_update(w, id, TRUE)
                  /\ wk' = [wk EXCEPT ![w].pc = "fetched", ![w].task = id,
                                      ![w].metadata = tasks[id].metadata]
    /\ UNCHANGED <<tasks, nextId, periodic, nextPid, now, params, pool, sch, cl, hist>>

\* The transaction opens and fetch_task_query runs.  None commits at once,
\* run_task returns Ok(None) and run_tasks sleeps; a found row stays locked by
\* the transaction.
fetch_and_touch_fetch(w) ==
    /\ wk[w].pc = "loop"
    /\ pool.shared_state = "Running"
    /\ LET found == fetch_task_query(w, params.task_type)
       IN  IF found = {}
           THEN /\ wk' = [wk EXCEPT ![w].pc = "sleep"]
                /\ UNCHANGED locks
           ELSE \E id \in found :
                  /\ locks' = for_update(w, id, TRUE)
                  /\ wk' = [wk EXCEPT ![w].pc = "fetched", ![w].task = id,
                                      ![w].metadata = tasks[id].metadata]
    /\ UNCHANGED <<tasks, nextId, periodic, nextPid, now, params, pool, sch, cl, hist>>

\* start_processing_task_query succeeds and the transaction commits.
fetch_and_touch_update(w) ==
    /\ wk[w].pc = "fetched"
    /\ tasks' = [tasks EXCEPT ![wk[w].task] = start_processing_task_query(@, now)]
    /\ locks' = Unlock(w)
    /\ wk' = [wk EXCEPT ![w].pc = "claimed"]
    /\ hist' = [hist EXCEPT ![wk[w].task].by = @ \cup {w},
                            ![wk[w].task].claims = @ + 1]
    /\ UNCHANGED <<nextId, periodic, nextPid, now, params, pool, sch, cl>>

\* A failing UPDATE that ends the thread, as a panic does.
fetch_and_touch_rollback_ends_thread(w) ==
    /\ wk[w].pc = "fetched"
    /\ wk[w].restarts < MaxRestarts
    /\ locks' = Unlock(w)
    /\ wk' = [wk EXCEPT ![w] = Respawn(w)]
    /\ pool' = spawn_in_pool(w, wk[w].restarts + 1)
    /\ UNCHANGED <<tasks, nextId, periodic, nextPid, now, params, sch, cl, hist>>

\* start_processing_task_query fails: the transaction rolls back, run_task
\* returns the error (outcome db_error), run_tasks logs it and sleeps.
fetch_and_touch_rollback(w) ==
    /\ wk[w].pc = "fetched"
    /\ locks' = Unlock(w)
    /\ wk' = [wk EXCEPT ![w] = [NewWorker(wk[w].restarts) EXCEPT
                                   !.pc = "sleep", !.outcome = "db_error"]]
    /\ UNCHANGED <<tasks, nextId, periodic, nextPid, now, params, pool, sch, cl, hist>>

\* ------------------------------------------------------------ Executor::run
\* execute_task: from_value(...).unwrap() panics on a document no job has;
\* otherwise the job runs and returns Ok, returns Err or panics.
execute_task(w, outcome) ==
    /\ wk[w].pc = "claimed"
    /\ IF ~Deserializable(wk[w].metadata) \/ outcome = "panic"
       THEN /\ wk[w].restarts < MaxRestarts
            /\ wk' = [wk EXCEPT ![w] = Respawn(w)]
            /\ pool' = spawn_in_pool(w, wk[w].restarts + 1)
       ELSE /\ wk' = [wk EXCEPT ![w].pc = "ran", ![w].outcome = outcome]
            /\ UNCHANGED pool
    /\ hist' = IF Deserializable(wk[w].metadata) /\ wk[w].task \in DOMAIN hist
               THEN [hist EXCEPT ![wk[w].task].runs = @ + 1]
               ELSE hist
    /\ UNCHANGED <<dbVars, now, params, sch, cl>>

\* Disposition with RemoveFinished removing the row after an error too.
Disposition_remove_failed(mode, outcome) ==
    CASE mode = "KeepAll" -> IF outcome = "ok" THEN "finish" ELSE "fail"
      [] mode = "RemoveAll" -> "remove"
      [] mode = "RemoveFinished" -> "remove"

\* What finalize_task does to the row, by retention mode and outcome.
Disposition(mode, outcome) ==
    CASE mode = "KeepAll" -> IF outcome = "ok" THEN "finish" ELSE "fail"
      [] mode = "RemoveAll" -> "remove"
      [] mode = "RemoveFinished" -> IF outcome = "ok" THEN "remove" ELSE "fail"

\* finalize_task, then run returns to run_task: the ? of run_task returns the
\* job's error to run_tasks, which sleeps; after Ok run_tasks loops at once.  An
\* UPDATE of a row that is gone returns NotFound, which unwrap() turns into a
\* panic; a DELETE of a row that is gone deletes nothing.
finalize_task(w) ==
    /\ wk[w].pc = "ran"
    /\ ~LockedByOther(wk[w].task, w)
    /\ LET id == wk[w].task
           what == Disposition(params.retention_mode, wk[w].outcome)
           done == [wk EXCEPT ![w] = [NewWorker(wk[w].restarts) EXCEPT
                                         !.pc = IF wk[w].outcome = "ok" THEN "loop"
                                                                        ELSE "sleep"]]
       IN  CASE what = "remove" ->
                  /\ tasks' = Remove(tasks, id)
                  /\ hist' = Remove(hist, id)
                  /\ wk' = done /\ UNCHANGED pool
             [] what # "remove" /\ id \notin DOMAIN tasks ->
                  /\ wk[w].restarts < MaxRestarts
                  /\ wk' = [wk EXCEPT ![w] = Respawn(w)]
                  /\ pool' = spawn_in_pool(w, wk[w].restarts + 1)
                  /\ UNCHANGED <<tasks, hist>>
             [] what = "finish" /\ id \in DOMAIN tasks ->
                  /\ tasks' = [tasks EXCEPT ![id] = finish_task_query(@, now)]
                  /\ wk' = done /\ UNCHANGED pool
                  /\ UNCHANGED hist
             [] what = "fail" /\ id \in DOMAIN tasks ->
                  /\ tasks' = [tasks EXCEPT ![id] = fail_task_query(@, ErrDescription, now)]
                  /\ wk' = done /\ UNCHANGED pool
                  /\ UNCHANGED hist
    /\ UNCHANGED <<locks, nextId, periodic, nextPid, now, params, sch, cl>>

\* finalize_task: the UPDATE or DELETE returns a database error and unwrap()
\* panics.  The row is left as it is, the thread unwinds and its destructor
\* spawns the next thread.
finalize_task_failed(w) ==
    /\ wk[w].pc = "ran"
    /\ wk[w].restarts < MaxRestarts
    /\ wk' = [wk EXCEPT ![w] = Respawn(w)]
    /\ pool' = spawn_in_pool(w, wk[w].restarts + 1)
    /\ UNCHANGED <<dbVars, now, params, sch, cl, hist>>

\* thread::sleep returns and run_tasks starts its next iteration.
wake(w) ==
    /\ wk[w].pc = "sleep"
    /\ wk' = [wk EXCEPT ![w] = NewWorker(wk[w].restarts)]
    /\ UNCHANGED <<dbVars, now, params, pool, sch, cl, hist>>

\* ------------------------------------------------------------ SleepParams
maybe_reset_sleep_period(p) ==
    IF p.sleep_period # p.min_sleep_period
    THEN [p EXCEPT !.sleep_period = p.min_sleep_period]
    ELSE p

maybe_increase_sleep_period(p) ==
    IF p.sleep_period < p.max_sleep_period
    THEN [p EXCEPT !.sleep_period = p.sleep_period + p.sleep_step]
    ELSE p

\* Executor::sleep, the end of an unproductive iteration of run_tasks: the
\* period grows, then the thread sleeps for it.
sleep ==
    /\ unproductive < MaxIdle
    /\ sleep_params' = maybe_increase_sleep_period(sleep_params)
    /\ unproductive' = unproductive + 1
    /\ UNCHANGED <<dbVars, now, params, wk, cl, hist, pool, sch>>

\* The Ok(Some(_)) arm of run_tasks, the end of a productive iteration.
reset_sleep_period ==
    /\ sleep_params' = maybe_reset_sleep_period(sleep_params)
    /\ unproductive' = 0
    /\ UNCHANGED <<dbVars, now, params, wk, cl, hist, pool, sch>>

\* ------------------------------------------------------------ specifications
Producers == {"client_1"}

\* One iteration of run_tasks in the worker threads W, whose executors'
\* back-off is not followed.
WorkerStep(W) ==
    \/ \E w \in W : spawn_thread(w, "Ok") /\ UNCHANGED backoffVars
    \/ \E w \in W : wake(w) /\ UNCHANGED backoffVars
    \/ \E w \in W : fetch_and_touch_fetch(w) /\ UNCHANGED backoffVars
    \/ \E w \in W : fetch_and_touch_update(w) /\ UNCHANGED backoffVars
    \/ \E w \in W : fetch_and_touch_rollback(w) /\ UNCHANGED backoffVars
    \/ \E w \in W, outcome \in {"ok", "err", "panic"} :
          execute_task(w, outcome) /\ UNCHANGED backoffVars
    \/ \E w \in W : finalize_task(w) /\ UNCHANGED backoffVars
    \/ \E w \in W : finalize_task_failed(w) /\ UNCHANGED backoffVars

\* What a step of thread w does to the SleepParams of its executor.  A step
\* that ends an iteration in the Ok(None) or the Err arm of run_tasks calls
\* Executor::sleep, which grows the period before it sleeps; the step that ends
\* one in the Ok(Some) arm calls maybe_reset_sleep_period; a new thread makes
\* its executor with the SleepParams of the pool, whose sleep_period is
\* min_sleep_period in every initial state here.
back_off(w) ==
    CASE wk[w].pc # "sleep" /\ wk'[w].pc = "sleep" ->
            /\ sleep_params' = maybe_increase_sleep_period(sleep_params)
            /\ unproductive' = IF unproductive < MaxIdle THEN unproductive + 1
                                                         ELSE MaxIdle
      [] wk[w].pc = "ran" /\ wk'[w].pc = "loop" ->
            /\ sleep_params' = maybe_reset_sleep_period(sleep_params)
            /\ unproductive' = 0
      [] wk[w].pc = "start" /\ wk'[w].pc = "loop" ->
            /\ sleep_params' = [sleep_params EXCEPT
                                   !.sleep_period = sleep_params.min_sleep_period]
            /\ unproductive' = 0
      [] OTHER -> UNCHANGED backoffVars

\* One iteration of run_tasks in the thread w whose executor's back-off is
\* followed.
ExecutorStep(w) ==
    \/ spawn_thread(w, "Ok") /\ back_off(w)
    \/ wake(w) /\ back_off(w)
    \/ fetch_and_touch_fetch(w) /\ back_off(w)
    \/ fetch_and_touch_update(w) /\ back_off(w)
    \/ fetch_and_touch_rollback(w) /\ back_off(w)
    \/ \E outcome \in {"ok", "err", "panic"} : execute_task(w, outcome) /\ back_off(w)
    \/ finalize_task(w) /\ back_off(w)
    \/ finalize_task_failed(w) /\ back_off(w)

\* Producers and the worker pool.  The clock stands still, so every row has
\* the same created_at and a fetch may return any unlocked New row: every
\* order of claims that timestamps can produce, and more.
Next ==
    \/ \E c \in Producers, job \in Jobs : push_task_find(c, job)
    \/ \E c \in Producers : push_task_insert(c)
    \/ WorkerStep(Workers)

Spec == Init /\ [][Next]_vars

\* Executor::new: the parameters of an executor no pool has configured.
InitDefault ==
    /\ Init
    /\ params = [retention_mode |-> "RemoveFinished", task_type |-> NoType]

PushStep ==
    \/ \E c \in Clients, job \in Jobs : push_task_find(c, job)
    \/ \E c \in Clients : push_task_insert(c)

DirectStep(C) ==
    \/ \E c \in C, id \in DOMAIN tasks : start_processing_task(c, id)
    \/ \E c \in C, id \in DOMAIN tasks : finish_task(c, id)
    \/ \E c \in C, id \in DOMAIN tasks : fail_task(c, id)

\* Producers on two sessions, and the state updates called directly.
NextPush ==
    \/ PushStep
    \/ DirectStep(Clients)

SpecPush == InitDefault /\ [][NextPush]_vars

\* Two sessions that fetch, one of them inside transactions, over rows a
\* producer pushes.
NextFetch ==
    \/ Tick
    \/ \E c \in Producers, job \in Jobs : push_task_find(c, job)
    \/ \E c \in Producers : push_task_insert(c)
    \/ \E c \in Clients \ Producers : begin(c)
    \/ \E c \in Clients \ Producers : end(c)
    \/ \E c \in Clients, type \in {NoType} \cup TaskTypes : fetch_task(c, type)
    \/ \E c \in Producers, id \in DOMAIN tasks : finish_task(c, id)

SpecFetch == InitDefault /\ [][NextFetch]_vars

\* Two sessions that push periodic tasks and advance them.
NextPeriodic ==
    \/ Tick
    \/ \E c \in Clients, job \in Jobs, period \in Periods :
          push_periodic_task_find(c, job, period)
    \/ \E c \in Clients : push_periodic_task_insert(c)
    \/ \E c \in Clients, id \in DOMAIN periodic : schedule_next_task_execution(c, id)

SpecPeriodic == InitDefault /\ [][NextPeriodic]_vars

\* One session that pushes periodic tasks and advances any of them at any
\* time, as the scans of a scheduler of any margin may.
NextAdvance ==
    \/ Tick
    \/ \E c \in Producers, job \in Jobs, period \in Periods :
          push_periodic_task_find(c, job, period)
    \/ \E c \in Producers : push_periodic_task_insert(c)
    \/ \E c \in Producers, id \in DOMAIN periodic : schedule_next_task_execution(c, id)

SpecAdvance == InitDefault /\ [][NextAdvance]_vars

\* The scheduler thread, over periodic rows a session pushes while it runs.
NextScheduler ==
    \/ Tick
    \/ \E c \in Producers, job \in Jobs, period \in Periods :
          push_periodic_task_find(c, job, period)
    \/ \E c \in Producers : push_periodic_task_insert(c)
    \/ schedule_loop

SpecScheduler == InitDefault /\ [][NextScheduler]_vars

\* A run of the scheduler over some seconds, with one periodic row of a long
\* period; the scans come at any time and take any time.  A client finishes
\* the rows the scheduler pushes.
NextFiring ==
    \/ TickTo(MaxClock)
    \/ \E c \in Producers, job \in {j \in Jobs : j.tag = "Job"} :
          push_periodic_task_find(c, job, LongPeriod)
    \/ \E c \in Producers : push_periodic_task_insert(c)
    \/ \E c \in Clients \ Producers, id \in DOMAIN tasks : finish_task(c, id)
    \/ schedule_loop

SpecFiring == InitDefault /\ [][NextFiring]_vars

\* The scheduler thread takes its next step in the end, whatever it is.
SpecRestart == InitDefault /\ [][NextScheduler]_vars /\ WF_vars(schedule_loop)

\* A pool of one worker, with or without a task_type, over rows of both
\* task types.
NextTyped ==
    \/ Tick
    \/ \E c \in Producers, job \in Jobs : push_task_find(c, job)
    \/ \E c \in Producers : push_task_insert(c)
    \/ WorkerStep({"worker_1"})

SpecTyped == Init /\ [][NextTyped]_vars

\* A pool with no task_type, in each retention mode.
InitAnyType ==
    /\ Init
    /\ params.task_type = NoType

\* A pool from WorkerPool::start to the return of shutdown(), over rows of
\* one job that a producer inserts.
InitPool ==
    /\ InitWith(DefaultSleepParams, WorkerThread(0))
    /\ params.task_type = NoType

\* WorkerPool::new and then start(), in a pool without a task_type.
InitStart ==
    /\ InitOf(DefaultSleepParams, NoThread, NewPool)
    /\ params.task_type = NoType

\* start() and the threads it spawns, their restarts included, over rows of
\* one job that a producer inserts.
NextStart ==
    \/ \E idx \in 1..number_of_workers : start(idx)
    \/ \E c \in Producers : insert(c, JobDoc, "common")
    \/ \E w \in Workers : spawn_thread(w, "Err") /\ UNCHANGED backoffVars
    \/ WorkerStep(Workers)

SpecStart == InitStart /\ [][NextStart]_vars

PoolStep ==
    \/ \E w \in Workers : spawn_thread(w, "Err") /\ UNCHANGED backoffVars
    \/ \E w \in Workers : run_tasks_shutdown(w)
    \/ shutdown_begin
    \/ \E h \in pool.joining : shutdown_join(h)
    \/ shutdown_return

NextPool ==
    \/ \E c \in Producers : insert(c, JobDoc, "common")
    \/ WorkerStep(Workers)
    \/ PoolStep

\* Every worker thread that can take a step takes one in the end.
WorkerFairness ==
    /\ \A w \in Workers : WF_vars(WorkerStep({w}))
    /\ \A w \in Workers : WF_vars(run_tasks_shutdown(w))

\* So does shutdown(); producers need not go on.
Fairness ==
    /\ WorkerFairness
    /\ WF_vars((\E h \in pool.joining : shutdown_join(h)) \/ shutdown_return)

SpecPool == InitPool /\ [][NextPool]_vars /\ Fairness

\* A pool that is never shut down, over rows inserted with the document of a
\* job or with one that no job has.
NextInsert ==
    \/ \E c \in Producers, doc \in {JobDoc, BadDoc} : insert(c, doc, "common")
    \/ WorkerStep(Workers)

SpecInsert == InitAnyType /\ [][NextInsert]_vars /\ WorkerFairness

\* The back-off of one executor, for each SleepParams tried.
InitSleep ==
    /\ \E sp \in SleepParamsTried :
          sp.min_sleep_period <= sp.max_sleep_period /\ InitWith(sp, NewWorker(0))
    /\ params = [retention_mode |-> "RemoveFinished", task_type |-> NoType]

NextSleep ==
    \/ sleep
    \/ reset_sleep_period

SpecSleep == InitSleep /\ [][NextSleep]_vars

\* The pool and the scheduler, over the periodic rows of one job that a
\* producer pushes: the rows of fang_tasks are those the scheduler pushes.
NextCrash ==
    \/ \E c \in Producers, job \in {j \in Jobs : j.tag = "Job"} :
          push_periodic_task_find(c, job, 1)
    \/ \E c \in Producers : push_periodic_task_insert(c)
    \/ schedule_loop
    \/ WorkerStep(Workers)

SpecCrash == Init /\ [][NextCrash]_vars

\* One executor with its back-off, for each SleepParams tried, over the rows
\* a producer pushes.
NextLoop ==
    \/ \E c \in Producers, job \in {j \in Jobs : j.tag = "Job"} : push_task_find(c, job)
    \/ \E c \in Producers : push_task_insert(c)
    \/ ExecutorStep("worker_1")

SpecLoop == InitSleep /\ [][NextLoop]_vars

\* One worker, a producer of one job, and a client that calls the state
\* updates directly.
NextDirect ==
    \/ \E c \in Producers, job \in {j \in Jobs : j.tag = "Job"} : push_task_find(c, job)
    \/ \E c \in Producers : push_task_insert(c)
    \/ WorkerStep({"worker_1"})
    \/ DirectStep(Producers)

SpecDirect == InitAnyType /\ [][NextDirect]_vars

\* Rows of one job that a producer inserts as time goes by, and a client that
\* updates them.
NextUpdate ==
    \/ Tick
    \/ \E c \in Producers : insert(c, JobDoc, "common")
    \/ DirectStep(Clients \ Producers)

SpecUpdate == InitDefault /\ [][NextUpdate]_vars

\* Rows inserted with the document of one job, so with identical metadata, of
\* both task types, and a client that updates and removes them.
NextFrame ==
    \/ \E c \in Producers, type \in TaskTypes : insert(c, JobDoc, type)
    \/ DirectStep(Clients \ Producers)
    \/ \E c \in Clients \ Producers, id \in 1..MaxTasks : remove_task(c, id)
    \/ \E c \in Clients \ Producers, type \in TaskTypes : remove_tasks_of_type(c, type)

SpecFrame == InitDefault /\ [][NextFrame]_vars

\* The scheduler and one worker, over a periodic row of a period within the
\* margin, which is due at every scan.
NextDue ==
    \/ Tick
    \/ \E c \in Producers, job \in {j \in Jobs : j.tag = "Job"} :
          push_periodic_task_find(c, job, 1)
    \/ \E c \in Producers : push_periodic_task_insert(c)
    \/ schedule_loop
    \/ WorkerStep({"worker_1"})

SpecDue == InitAnyType /\ [][NextDue]_vars

\* One iteration of run_tasks in thread w when the database returns no error
\* and the job returns, with Ok or with Err.
RunStep(w) ==
    \/ wake(w) /\ UNCHANGED backoffVars
    \/ fetch_and_touch_fetch(w) /\ UNCHANGED backoffVars
    \/ fetch_and_touch_update(w) /\ UNCHANGED backoffVars
    \/ \E outcome \in {"ok", "err"} : execute_task(w, outcome) /\ UNCHANGED backoffVars
    \/ finalize_task(w) /\ UNCHANGED backoffVars

\* A pool of one worker that never crashes and goes on for ever, with or
\* without a task_type, over the rows a producer pushes as time goes by.
NextStarve ==
    \/ Tick
    \/ \E c \in Producers, job \in Jobs : push_task_find(c, job)
    \/ \E c \in Producers : push_task_insert(c)
    \/ RunStep("worker_1")

SpecStarve == Init /\ [][NextStarve]_vars /\ WF_vars(RunStep("worker_1"))

\* ------------------------------------------------------------ claims
Holding(w) == wk[w].pc \in {"claimed", "ran"}

\* C1: the row ids that concurrent fetch_and_touch calls return to different
\* workers are disjoint: no row is returned to two workers, and no two workers
\* hold the same row as InProgress at the same time.
C1_DisjointClaims ==
    /\ \A id \in DOMAIN hist : Cardinality(hist[id].by) <= 1
    /\ \A w1, w2 \in Workers :
          w1 # w2 /\ Holding(w1) /\ Holding(w2) => wk[w1].task # wk[w2].task

\* Two calls overlap: one has returned its row while the other holds a
\* different row inside its transaction.
C1_Witness ==
    \E w1, w2 \in Workers :
        /\ wk[w1].pc = "claimed" /\ wk[w2].pc = "fetched"
        /\ wk[w1].task # wk[w2].task
        /\ hist[wk[w1].task].by = {w1}

\* C2: over its lifetime a row is claimed (New -> InProgress by
\* fetch_and_touch) at most once and its job is started at most once, also
\* after the worker that claimed it has crashed and been restarted.
C2_ClaimedOnce ==
    \A id \in DOMAIN hist : hist[id].claims <= 1 /\ hist[id].runs <= 1

\* A row whose job ran and whose worker crashed: it stays behind InProgress
\* while the restarted worker is back in its loop.
C2_Witness ==
    \E id \in DOMAIN tasks, w \in Workers :
        /\ hist[id].by = {w} /\ hist[id].runs = 1
        /\ tasks[id].state = "InProgress"
        /\ wk[w].restarts = 1 /\ wk[w].pc \in {"loop", "sleep"}

\* The rows a fetch by session s with that filter may lock.
Claimable(s, type) ==
    {id \in DOMAIN tasks :
        /\ tasks[id].state = "New"
        /\ type = NoType \/ tasks[id].task_type = type
        /\ \A l \in locks : l[1] = id => l[2] = s}

\* C10: fetch_and_touch returns a row that was New and is InProgress, committed
\* and unlocked, when the call returns, or returns none and changes no row; it
\* returns none exactly when no unlocked New row matches the filter.
C10_FetchAndTouch ==
    [][\A w \in Workers :
         /\ wk[w].pc = "fetched" /\ wk'[w].pc = "claimed" =>
               /\ tasks[wk[w].task].state = "New"
               /\ wk'[w].task = wk[w].task
               /\ tasks'[wk[w].task].state = "InProgress"
               /\ \A l \in locks' : l[1] # wk[w].task
               /\ \A id \in DOMAIN tasks \ {wk[w].task} :
                     id \in DOMAIN tasks' /\ tasks'[id] = tasks[id]
         /\ wk[w].pc = "loop" /\ wk'[w].pc = "sleep" =>
               /\ tasks' = tasks
               /\ Claimable(w, params.task_type) = {}
         /\ wk[w].pc = "loop" /\ wk'[w].pc = "fetched" =>
               /\ tasks' = tasks
               /\ wk'[w].task \in Claimable(w, params.task_type)
         /\ wk[w].pc = "loop" /\ wk'[w] # wk[w]
               /\ Claimable(w, params.task_type) = {} => wk'[w].pc = "sleep"
      ]_vars

\* One call has returned a row, now InProgress, and another has returned none.
C10_Witness ==
    \E w1, w2 \in Workers :
        /\ wk[w1].pc = "claimed" /\ tasks[wk[w1].task].state = "InProgress"
        /\ wk[w2].pc = "sleep"
        /\ \E id \in DOMAIN tasks : tasks[id].state = "New"

\* The state changes of New -> InProgress -> {Finished | Failed}.
DagEdges ==
    {<<"New", "InProgress">>, <<"InProgress", "Finished">>, <<"InProgress", "Failed">>}

Moved(id) == id \in DOMAIN tasks' /\ tasks'[id].state # tasks[id].state

\* C3 as claimed: every state change of every row, by a Queue operation or an
\* executor run, is a step of New -> InProgress -> {Finished | Failed}.
C3_EveryChangeInDag ==
    [][\A id \in DOMAIN tasks :
         Moved(id) => <<tasks[id].state, tasks'[id].state>> \in DagEdges]_vars

\* C3 amended: no operation moves a row back to New, and a row changed only by
\* fetch_and_touch and by the finalize of the worker that claimed it moves
\* along New -> InProgress -> {Finished | Failed}; start_processing_task,
\* finish_task and fail_task called directly set their state whatever the
\* row's state is.
C3_NeverBackToNew ==
    [][\A id \in DOMAIN tasks :
         Moved(id) =>
            /\ tasks'[id].state # "New"
            /\ ~hist'[id].direct =>
                  <<tasks[id].state, tasks'[id].state>> \in DagEdges]_vars

\* One row went through a claim to its final state, and another was moved by a
\* direct call without ever being claimed.
C3_Witness ==
    \E i, j \in DOMAIN tasks :
        /\ ~hist[i].direct /\ hist[i].claims = 1 /\ tasks[i].state = "Failed"
        /\ hist[j].direct /\ hist[j].claims = 0 /\ tasks[j].state = "Finished"

Active(id) == id \in DOMAIN tasks /\ tasks[id].state \in {"New", "InProgress"}

\* A push_task call of client c returns or moves on to its INSERT in this step.
PushCall(c) == cl[c].pc = "ready" /\ cl'[c] # cl[c] /\ cl'[c].op = "push_task"

\* C4 as claimed: a push_task that follows a push_task of the same metadata on
\* the same session, while the row the first returned is New or InProgress,
\* returns that row and inserts none.
C4_SecondPushSameRow ==
    [][\A c \in Clients :
         /\ PushCall(c)
         /\ cl[c].op = "push_task" /\ cl'[c].doc = cl[c].doc
         /\ Active(cl[c].ret)
         => /\ cl'[c].pc = "ready"
            /\ cl'[c].ret = cl[c].ret
            /\ tasks' = tasks]_vars

\* C5 as claimed: with rows created by push_task alone, no two rows in state
\* New or InProgress have the same metadata.
C5_OneActiveRowPerMetadata ==
    \A i, j \in DOMAIN tasks :
        i # j /\ Active(i) /\ Active(j) => tasks[i].metadata # tasks[j].metadata

\* C6: when every row of metadata m is Finished or Failed, push_task of m goes
\* on to its INSERT, which adds one row in state New with a fresh id and
\* returns it, and changes no other row.
C6_PushAfterTerminal ==
    [][\A c \in Clients :
         /\ PushCall(c) /\ (\A id \in DOMAIN tasks :
                              tasks[id].metadata = cl'[c].doc => ~Active(id))
            => cl'[c].pc = "push_task" /\ tasks' = tasks
         /\ cl[c].pc = "push_task" /\ cl'[c].pc = "ready"
            => /\ cl'[c].ret >= nextId
               /\ DOMAIN tasks' = DOMAIN tasks \cup {cl'[c].ret}
               /\ cl'[c].ret \notin DOMAIN tasks
               /\ tasks'[cl'[c].ret].state = "New"
               /\ tasks'[cl'[c].ret].metadata = cl[c].doc
               /\ \A id \in DOMAIN tasks : tasks'[id] = tasks[id]]_vars

\* A push has returned a new row in state New while a Finished or Failed row
\* of the same metadata is kept.
C6_Witness ==
    \E c \in Clients, i, j \in DOMAIN tasks :
        /\ cl[c].pc = "ready" /\ cl[c].op = "push_task" /\ cl[c].ret = j
        /\ i < j
        /\ tasks[i].metadata = tasks[j].metadata
        /\ tasks[i].state \in {"Finished", "Failed"}
        /\ tasks[j].state = "New"

\* The New rows a filter matches.
NewRows(type) ==
    {id \in DOMAIN tasks :
        /\ tasks[id].state = "New"
        /\ type = NoType \/ tasks[id].task_type = type}

\* C8: while no other session holds a row lock, fetch_task(type) returns a row
\* of the smallest created_at among the New rows the filter matches, and none
\* when there is no such row.
C8_OldestNewRow ==
    [][\A c \in Clients, type \in {NoType} \cup TaskTypes :
         fetch_task(c, type) /\ (\A l \in locks : l[2] = c)
         => IF NewRows(type) = {}
            THEN cl'[c].ret = NoTask
            ELSE /\ cl'[c].ret \in NewRows(type)
                 /\ \A j \in NewRows(type) :
                       tasks[cl'[c].ret].created_at <= tasks[j].created_at]_vars

\* With no row locked, a fetch has returned the older of two New rows.
C8_Witness ==
    \E c \in Clients, j, k \in DOMAIN tasks :
        /\ cl[c].op = "fetch_task" /\ cl[c].ret = j
        /\ locks = {}
        /\ tasks[j].state = "New" /\ tasks[k].state = "New"
        /\ tasks[j].created_at < tasks[k].created_at

StrictlyOldestNew(a) ==
    /\ a \in NewRows(NoType)
    /\ \A j \in NewRows(NoType) \ {a} : tasks[a].created_at < tasks[j].created_at

\* C9: while session t1 holds the lock on the oldest New row a inside its open
\* transaction (and no other row is locked), fetch_task of another session t2
\* is not blocked and returns the oldest of the other New rows; once t1's
\* transaction has ended with a still New, fetch_task returns a again.
C9_SkipLocked ==
    /\ [](\A t1, t2 \in Clients, a \in DOMAIN tasks :
            /\ t1 # t2 /\ cl[t1].tx /\ <<a, t1>> \in locks
            /\ cl[t2].pc = "ready"
            => ENABLED fetch_task(t2, NoType))
    /\ [][\A t1, t2 \in Clients, a \in DOMAIN tasks :
            t1 # t2 /\ StrictlyOldestNew(a) /\ fetch_task(t2, NoType)
            => /\ cl[t1].tx /\ locks = {<<a, t1>>} /\ NewRows(NoType) # {a}
                  => /\ cl'[t2].ret \in NewRows(NoType) \ {a}
                     /\ \A j \in NewRows(NoType) \ {a} :
                           tasks[cl'[t2].ret].created_at <= tasks[j].created_at
               /\ cl[t1].op = "end" /\ cl[t1].ret = a /\ (\A l \in locks : l[2] = t2)
                  => cl'[t2].ret = a]_vars

\* t1 holds the lock on the oldest New row in its transaction and t2 has
\* fetched the younger New row.
C9_Witness ==
    \E t1, t2 \in Clients, a, b \in DOMAIN tasks :
        /\ t1 # t2 /\ cl[t1].tx /\ <<a, t1>> \in locks /\ cl[t1].ret = a
        /\ cl[t2].op = "fetch_task" /\ cl[t2].ret = b
        /\ a # b /\ tasks[a].state = "New" /\ tasks[b].state = "New"
        /\ tasks[a].created_at < tasks[b].created_at

\* A push_periodic_task call of client c returns or moves on to its INSERT.
PeriodicPushCall(c) ==
    cl[c].pc = "ready" /\ cl'[c] # cl[c] /\ cl'[c].op = "push_periodic_task"

\* C7 as claimed: a push_periodic_task that follows a push_periodic_task of the
\* same metadata on the same session returns the same row and inserts none,
\* whatever the row's scheduled_at; a call that inserts leaves scheduled_at
\* null.
C7_SecondPeriodicPushSameRow ==
    [][\A c \in Clients :
         /\ /\ PeriodicPushCall(c)
            /\ cl[c].op = "push_periodic_task" /\ cl'[c].doc = cl[c].doc
            /\ cl[c].ret \in DOMAIN periodic
            => /\ cl'[c].pc = "ready"
               /\ cl'[c].ret = cl[c].ret
               /\ periodic' = periodic
         /\ cl[c].pc = "push_periodic_task" /\ cl'[c].pc = "ready"
            => periodic'[cl'[c].ret].scheduled_at = Null]_vars

\* C11: when the UPDATE inside fetch_and_touch fails, the call returns the
\* error, no row is changed, and the fetched row is New, locked by no session
\* and among the rows a fetch_and_touch of any worker may claim.
C11_RollbackLeavesNew ==
    [][\A w \in Workers :
         wk[w].pc = "fetched" /\ wk'[w].pc = "sleep" =>
            /\ wk'[w].outcome = "db_error"
            /\ tasks' = tasks
            /\ tasks'[wk[w].task].state = "New"
            /\ \A l \in locks' : l[1] # wk[w].task
            /\ \A o \in Workers : wk[w].task \in Claimable(o, params.task_type)'
      ]_vars

\* The only row ever inserted was fetched by a call that failed, and a later
\* fetch_and_touch of another worker has claimed it.
C11_Witness ==
    \E w1, w2 \in Workers :
        /\ nextId = 2 /\ DOMAIN tasks = {1}
        /\ wk[w1].pc = "sleep" /\ wk[w1].outcome = "db_error"
        /\ wk[w2].pc = "claimed" /\ wk[w2].task = 1
        /\ tasks[1].state = "InProgress"

\* The row is retained in that state with that error_message.
Kept(id, state, error) ==
    /\ id \in DOMAIN tasks'
    /\ tasks'[id].state = state
    /\ tasks'[id].error_message = error

\* C12: when Executor::run has finalized a row, KeepAll leaves it Finished
\* after ok and Failed with the error's description after an error,
\* RemoveAll has deleted it after both, and RemoveFinished has deleted it
\* after ok and left it Failed with the error's description after an error.
C12_Disposition ==
    [][\A w \in Workers :
         /\ wk[w].pc = "ran" /\ wk'[w].pc \in {"loop", "sleep"}
         /\ wk'[w].restarts = wk[w].restarts
         => LET id == wk[w].task
                ok == wk[w].outcome = "ok"
                mode == params.retention_mode
            IN  /\ mode = "KeepAll" /\ ok =>
                      id \in DOMAIN tasks' /\ tasks'[id].state = "Finished"
                /\ mode = "KeepAll" /\ ~ok => Kept(id, "Failed", ErrDescription)
                /\ mode = "RemoveAll" => id \notin DOMAIN tasks'
                /\ mode = "RemoveFinished" /\ ok => id \notin DOMAIN tasks'
                /\ mode = "RemoveFinished" /\ ~ok => Kept(id, "Failed", ErrDescription)
                /\ \A j \in DOMAIN tasks \ {id} :
                      j \in DOMAIN tasks' /\ tasks'[j] = tasks[j]
      ]_vars

\* RemoveFinished: the first row ran ok and is gone, the second failed and is
\* kept as Failed with the description of the job's error.
C12_Witness ==
    /\ params.retention_mode = "RemoveFinished"
    /\ DOMAIN tasks = {2}
    /\ tasks[2].state = "Failed" /\ tasks[2].error_message = ErrDescription
    /\ hist[2].claims = 1 /\ ~hist[2].direct

\* C13 as claimed: in every reachable state every retained row has a non-null
\* error_message exactly when its state is Failed.
C13_ErrorIffFailed ==
    \A id \in DOMAIN tasks :
        tasks[id].error_message # NoError <=> tasks[id].state = "Failed"

\* C13 amended: every Failed row has a non-null error_message, and a row
\* changed only by fetch_and_touch and by the finalize of the worker that
\* claimed it has a non-null error_message only when it is Failed;
\* start_processing_task and finish_task called directly leave the
\* error_message of a Failed row in place.
C13_FailedHasError ==
    \A id \in DOMAIN tasks :
        /\ tasks[id].state = "Failed" => tasks[id].error_message # NoError
        /\ ~hist[id].direct =>
              (tasks[id].error_message # NoError => tasks[id].state = "Failed")

\* One row was failed by the worker that claimed it; another was failed and
\* then finished by direct calls and keeps its error_message.
C13_Witness ==
    \E i, j \in DOMAIN tasks :
        /\ ~hist[i].direct /\ tasks[i].state = "Failed"
        /\ tasks[i].error_message = ErrDescription
        /\ hist[j].direct /\ tasks[j].state = "Finished"
        /\ tasks[j].error_message # NoError

\* The rows whose task_type the pool's workers do not take.
Foreign(id) ==
    params.task_type # NoType /\ tasks[id].task_type # params.task_type

\* Worker w starts a fetch_and_touch that fetches row id.
FetchOf(w, id) == fetch_and_touch_fetch(w) /\ wk'[w].task = id

\* C14: a worker of task_type t holds no row of another task_type and no step
\* changes such a row, which stays New; a worker with no task_type can fetch
\* the oldest unlocked New row whatever its task_type.
C14_TypeFilter ==
    /\ [](\A id \in DOMAIN tasks :
            /\ Foreign(id) =>
                  /\ tasks[id].state = "New"
                  /\ \A w \in Workers : wk[w].task # id
            /\ \A w \in Workers :
                  /\ params.task_type = NoType /\ wk[w].pc = "loop"
                  /\ tasks[id].state = "New"
                  /\ \A l \in locks : l[1] # id
                  /\ \A j \in DOMAIN tasks :
                        tasks[j].state = "New" =>
                           tasks[id].created_at <= tasks[j].created_at
                  => ENABLED FetchOf(w, id))
    /\ [][\A id \in DOMAIN tasks :
            Foreign(id) => id \in DOMAIN tasks' /\ tasks'[id] = tasks[id]]_vars

\* A worker of task_type type1 has run the type1 row and sleeps on an empty
\* fetch while the row of task_type common is still New.
C14_Witness ==
    \E i, j \in DOMAIN tasks, w \in Workers :
        /\ params.task_type = "type1"
        /\ tasks[i].task_type = "type1" /\ tasks[i].state = "Finished"
        /\ hist[i].by = {w}
        /\ tasks[j].task_type = "common" /\ tasks[j].state = "New"
        /\ tasks[j].created_at < tasks[i].created_at
        /\ wk[w].pc = "sleep" /\ wk[w].outcome = "none"

Min(a, b) == IF a <= b THEN a ELSE b

\* C15 as claimed: starting from sleep_period = min, after K unproductive
\* iterations in a row sleep_period = min(min + K * step, max), which is min
\* after a productive iteration and never more than max_sleep_period.
C15_BackOff ==
    /\ sleep_params.sleep_period =
          Min(sleep_params.min_sleep_period + unproductive * sleep_params.sleep_step,
              sleep_params.max_sleep_period)
    /\ sleep_params.sleep_period <= sleep_params.max_sleep_period

\* C16 as claimed: once shutdown() has begun to join the threads it returns
\* in the end, also when a worker thread panics meanwhile.
C16_ShutdownReturns ==
    (pool.shutdown = "joining") ~> (pool.shutdown = "returned")

\* C19 as claimed: a claimed row whose metadata no job deserializes from does
\* not stay InProgress for ever: in the end it is Failed or removed.
C19_BadRowLeavesInProgress ==
    \A id \in 1..MaxTasks :
        (/\ id \in DOMAIN tasks
         /\ tasks[id].state = "InProgress"
         /\ ~Deserializable(tasks[id].metadata))
        ~> (id \notin DOMAIN tasks \/ tasks[id].state = "Failed")

NoCrash == \A w \in Workers : wk[w].restarts = 0

\* C17: when shutdown() has returned and no worker has crashed, every worker
\* thread has ended after run_tasks returned Ok, every row that was claimed
\* has been run and finalized, no row is InProgress, and the rows still New
\* are claimed by nobody afterwards.
C17_GracefulShutdown ==
    /\ [](pool.shutdown = "returned" /\ NoCrash =>
            /\ \A w \in Workers : wk[w].pc = "exited"
            /\ \A id \in DOMAIN tasks :
                  /\ tasks[id].state # "InProgress"
                  /\ hist[id].claims = 1 =>
                        /\ hist[id].runs = 1
                        /\ tasks[id].state \in {"Finished", "Failed"})
    /\ [][pool.shutdown = "returned" /\ NoCrash =>
            \A id \in DOMAIN tasks :
               tasks[id].state = "New" =>
                  id \in DOMAIN tasks' /\ tasks'[id] = tasks[id]]_vars

\* shutdown() has returned from a pool without a crash: one row was claimed,
\* run and finished, another, inserted later, is left New.
C17_Witness ==
    /\ pool.shutdown = "returned" /\ NoCrash
    /\ \E i, j \in DOMAIN tasks :
          /\ tasks[i].state = "Finished" /\ hist[i].claims = 1
          /\ tasks[j].state = "New" /\ hist[j].claims = 0

\* C18: the restarts of a worker name change only when its thread ends at a
\* failed connection or a panic, and then a thread of that name starts with
\* restarts one higher; a thread ends gracefully only at the top of run_tasks
\* after reading Shutdown, and is never followed by another.
C18_RespawnOnCrashOnly ==
    [][\A w \in Workers :
         /\ wk'[w].restarts # wk[w].restarts \/ (wk'[w].pc = "start" /\ wk'[w] # wk[w])
            => /\ wk[w].pc \in {"start", "claimed", "ran"}
               /\ wk'[w] = WorkerThread(wk[w].restarts + 1)
         /\ wk[w].pc # "exited" /\ wk'[w].pc = "exited"
            => wk[w].pc = "loop" /\ pool.shared_state = "Shutdown"
         /\ wk[w].pc = "exited" => wk'[w] = wk[w]
      ]_vars

\* One worker panicked in its job, was spawned again with restarts = 1 and
\* ended gracefully; the other ended gracefully without a restart.
C18_Witness ==
    \E w1, w2 \in Workers, id \in DOMAIN tasks :
        /\ wk[w1].pc = "exited" /\ wk[w1].restarts = 1
        /\ wk[w2].pc = "exited" /\ wk[w2].restarts = 0
        /\ hist[id].by = {w1} /\ hist[id].runs = 1
        /\ tasks[id].state = "InProgress"

\* C20: the step in which a scan is through with a row it loaded with a
\* null scheduled_at sets the row's scheduled_at to now + period_in_seconds
\* and inserts nothing in fang_tasks; and every one-shot row the scheduler
\* inserts is for a row that the scan loaded with a scheduled_at, not one this
\* scan has seeded.
C20_NullRowSeededNotPushed ==
    [][/\ \A id \in DOMAIN sch.todo :
             sch.pc = "for" /\ sch.todo[id].scheduled_at = Null /\ sch'.todo # sch.todo
             /\ (id \notin DOMAIN sch'.todo \/ sch'.task = id)
             => /\ id \in DOMAIN periodic'
                /\ periodic'[id].scheduled_at = now + periodic[id].period_in_seconds
                /\ tasks' = tasks
                /\ nextId' = nextId
                /\ sch'.pc = "for" /\ sch'.task = NoTask
       /\ sch.pc = "push_task" /\ nextId' # nextId
             => /\ sch.task \notin sch.seeded
                /\ sch.todo[sch.task].scheduled_at # Null
      ]_vars

\* A scan has just seeded one periodic row, of which fang_tasks has no row
\* yet, while the job of a row seeded by an earlier scan has been pushed.
C20_Witness ==
    \E id \in sch.seeded, other \in DOMAIN periodic \ sch.seeded :
        /\ periodic[id].scheduled_at = now + periodic[id].period_in_seconds
        /\ \A t \in DOMAIN tasks : tasks[t].metadata # periodic[id].metadata
        /\ \E t \in DOMAIN tasks : tasks[t].metadata = periodic[other].metadata

\* C21: a row that a scan loaded with a scheduled_at leaves the scan's list
\* either by the advance, which comes after push_task has returned a row of
\* the job and writes now + period_in_seconds, or by the panic of a failed
\* push_task, which leaves fang_periodic_tasks as it is.
C21_PushThenAdvance ==
    [][\A id \in DOMAIN sch.todo :
          sch.todo[id].scheduled_at # Null =>
             /\ (sch.task = id /\ sch'.task # id) \/ periodic'[id] # periodic[id] =>
                   \/ /\ sch.pc = "schedule_next" /\ sch.task = id
                      /\ find_task_by_metadata_query(sch.todo[id].metadata) # {}
                      /\ periodic'[id].scheduled_at = now + periodic[id].period_in_seconds
                      /\ tasks' = tasks
                   \/ /\ sch.pc = "push_task" /\ sch.task = id
                      /\ sch' = [NewScheduler EXCEPT !.pc = "start_new"]
                      /\ periodic' = periodic /\ tasks' = tasks
             /\ sch.pc = "push_task" /\ sch.task = id /\ sch'.pc = "schedule_next" =>
                   /\ nextId' = nextId + 1
                   /\ tasks'[nextId].metadata = sch.todo[id].metadata
                   /\ periodic' = periodic
      ]_vars

\* A scan in progress has pushed the job of a row of period 1 it had loaded
\* with a scheduled_at, and has advanced the row, after the clock moved.
C21_Witness ==
    \E id \in DOMAIN periodic :
        /\ sch.pc = "for"
        /\ id \notin DOMAIN sch.todo /\ id \notin sch.seeded
        /\ periodic[id].period_in_seconds = 1
        /\ now > 0 /\ periodic[id].created_at = 0
        /\ periodic[id].updated_at = now
        /\ periodic[id].scheduled_at = now + 1
        /\ find_task_by_metadata_query(periodic[id].metadata) # {}

\* C22 as claimed: what a scan loads with fetch_periodic_tasks(margin) is
\* exactly the rows whose scheduled_at is null or lies in
\* [now - margin, now + margin], both ends included.
C22_InclusiveWindow ==
    [][sch.pc = "sleep" /\ sch'.pc = "for" =>
          DOMAIN sch'.todo =
             {id \in DOMAIN periodic :
                 \/ periodic[id].scheduled_at = Null
                 \/ /\ periodic[id].scheduled_at >= now - error_margin_seconds
                    /\ periodic[id].scheduled_at <= now + error_margin_seconds}
      ]_vars

\* C23: whenever schedule_next_task_execution advances a periodic row, in
\* whatever order and at whatever times the calls come, the row's
\* scheduled_at becomes now + period_in_seconds and is not less than it was.
C23_AdvanceMonotone ==
    [][\A id \in DOMAIN periodic :
          periodic'[id] # periodic[id] =>
             /\ periodic'[id].scheduled_at = now + periodic[id].period_in_seconds
             /\ periodic'[id].updated_at = now
             /\ periodic[id].scheduled_at # Null =>
                   periodic'[id].scheduled_at >= periodic[id].scheduled_at
      ]_vars

\* A row created at time 0 has been advanced after the clock moved: its
\* scheduled_at is now + period_in_seconds, past any value written at 0.
C23_Witness ==
    \E id \in DOMAIN periodic :
        /\ now > 0
        /\ periodic[id].created_at = 0
        /\ periodic[id].updated_at = now
        /\ periodic[id].scheduled_at = now + periodic[id].period_in_seconds

\* C24: the step in which fetch_and_touch returns a database error changes
\* no row, keeps the thread and its restarts, and ends the iteration in
\* Executor::sleep with the period grown by sleep_step if it was below
\* max_sleep_period; the next step of the thread begins the next iteration.
C24_DbErrorAbsorbed ==
    [][\A w \in Workers :
         /\ wk[w].pc = "fetched" /\ wk'[w].pc # "claimed" /\ wk'[w] # wk[w] =>
               /\ wk'[w].pc = "sleep" /\ wk'[w].outcome = "db_error"
               /\ wk'[w].restarts = wk[w].restarts
               /\ tasks' = tasks /\ nextId' = nextId /\ periodic' = periodic
               /\ sleep_params' =
                     IF sleep_params.sleep_period < sleep_params.max_sleep_period
                     THEN [sleep_params EXCEPT
                              !.sleep_period = @ + sleep_params.sleep_step]
                     ELSE sleep_params
         /\ wk[w].pc = "sleep" /\ wk[w].outcome = "db_error" /\ wk'[w] # wk[w] =>
               /\ wk'[w].pc = "loop"
               /\ wk'[w].restarts = wk[w].restarts
               /\ tasks' = tasks
      ]_vars

\* The executor sleeps after a database error of fetch_and_touch, its period
\* grown, the thread not restarted, and the row it had fetched New.
C24_Witness ==
    \E w \in Workers, id \in DOMAIN tasks :
        /\ wk[w].pc = "sleep" /\ wk[w].outcome = "db_error"
        /\ wk[w].restarts = 0
        /\ unproductive = 1
        /\ sleep_params.sleep_period =
              sleep_params.min_sleep_period + sleep_params.sleep_step
        /\ tasks[id].state = "New" /\ hist[id].claims = 0
        /\ locks = {}

\* C26 as claimed: the step that finalizes a row fetch_and_touch returned
\* ends the iteration with sleep_period = min_sleep_period and the thread at
\* the top of run_tasks, not asleep, whether the job returned Ok or an error.
C26_ProductiveResets ==
    [][\A w \in Workers :
         wk[w].pc = "ran" /\ wk'[w] # wk[w] /\ wk'[w].restarts = wk[w].restarts =>
            /\ wk'[w].pc = "loop"
            /\ sleep_params'.sleep_period = sleep_params.min_sleep_period
      ]_vars

\* C27 as claimed: the period a thread sleeps for at the end of an unproductive
\* iteration, which is sleep_period as thread::sleep reads it in the state the
\* thread sleeps in, is the period the executor held before that step; so the
\* first sleep after the start or after a productive iteration lasts
\* min_sleep_period.
C27_SleepThenGrow ==
    [][\A w \in Workers :
         wk[w].pc # "sleep" /\ wk'[w].pc = "sleep" =>
            /\ sleep_params'.sleep_period = sleep_params.sleep_period
            /\ unproductive = 0 =>
                  sleep_params'.sleep_period = sleep_params.min_sleep_period
      ]_vars

\* C29: while a worker is in execute_task or finalize_task the transaction
\* of its fetch_and_touch is over: it holds no row lock, and the committed row
\* it runs is InProgress for every session.
C29_CommittedBeforeRun ==
    \A w \in Workers :
        Holding(w) =>
           /\ \A l \in locks : l[2] # w
           /\ wk[w].task \in DOMAIN tasks
           /\ tasks[wk[w].task].state = "InProgress"
           /\ hist[wk[w].task].claims = 1

\* A job has run and its row is not finalized yet: the row is InProgress, no
\* row is locked, and the other worker sleeps after an empty fetch.
C29_Witness ==
    \E w, o \in Workers :
        /\ w # o
        /\ wk[w].pc = "ran"
        /\ tasks[wk[w].task].state = "InProgress"
        /\ locks = {}
        /\ wk[o].pc = "sleep" /\ wk[o].outcome = "none"

Matching == {id \in DOMAIN tasks :
               /\ tasks[id].state = "New"
               /\ params.task_type # NoType => tasks[id].task_type = params.task_type}

\* C30: a worker at the top of its loop, while no other worker is inside its
\* claim transaction, is offered every New row of its type by its fetch,
\* whatever jobs the others are running.
C30_SharedWork ==
    \A w \in Workers :
        /\ wk[w].pc = "loop"
        /\ \A o \in Workers \ {w} : wk[o].pc # "fetched"
        => /\ fetch_task_query(w, params.task_type) \subseteq Matching
           /\ Matching # {} => fetch_task_query(w, params.task_type) # {}

\* Both workers run jobs at once, on two rows that are both InProgress.
C30_Witness ==
    \E w, o \in Workers :
        /\ w # o
        /\ wk[w].pc = "claimed" /\ wk[o].pc = "claimed"
        /\ wk[w].task # wk[o].task
        /\ tasks[wk[w].task].state = "InProgress"
        /\ tasks[wk[o].task].state = "InProgress"

\* A row is InProgress and no running thread has it in hand: the thread that
\* claimed it has died.
Abandoned(id) ==
    /\ tasks[id].state = "InProgress"
    /\ \A w \in Workers : ~(Holding(w) /\ wk[w].task = id)

\* C28: a row left InProgress by a thread that died stays as it is in every
\* step of the workers, restarted or not, and of the scheduler: it is not
\* changed, not deleted, not fetched, not claimed and not run again.
C28_AbandonedStaysInProgress ==
    [][\A id \in DOMAIN tasks :
          Abandoned(id) =>
             /\ id \in DOMAIN tasks'
             /\ tasks'[id] = tasks[id]
             /\ hist'[id] = hist[id]
             /\ \A w \in Workers : wk'[w].task # id
      ]_vars

\* The worker that claimed the row died and runs again, both workers have
\* found nothing to fetch, and a later scan of the scheduler has got the row
\* back from push_task: the row is still InProgress.
C28_Witness ==
    \E id \in DOMAIN tasks, w, o \in Workers :
        /\ Abandoned(id)
        /\ hist[id].by = {w} /\ wk[w].restarts = 1
        /\ w # o
        /\ wk[w].pc = "sleep" /\ wk[o].pc = "sleep"
        /\ sch.pc = "schedule_next"
        /\ periodic[sch.task].metadata = tasks[id].metadata
        /\ find_task_by_metadata_query(tasks[id].metadata) = {id}

Spawned == {w \in Workers : wk[w].pc # "unspawned"}

\* C25: when start() has made idx turns of its loop, the names that have a
\* thread are the idx distinct names worker_1 .. worker_idx, N of them when it
\* returns; and in every state, whatever the restarts, thread_join_handles
\* has one entry for each of these names, that of the name's latest thread,
\* so at most N, and at most N threads are inside the closure of spawn_thread.
C25_StartSpawnsN ==
    /\ Spawned = {worker_name(i) : i \in 1..pool.start}
    /\ Cardinality(Spawned) = pool.start
    /\ pool.start <= number_of_workers
    /\ DOMAIN pool.thread_join_handles = Spawned
    /\ Cardinality(DOMAIN pool.thread_join_handles) <= number_of_workers
    /\ \A w \in Spawned : pool.thread_join_handles[w] = wk[w].restarts
    /\ Cardinality({w \in Workers : wk[w].pc \notin {"unspawned", "exited"}})
          <= number_of_workers

\* start() has returned, both threads have been spawned again after a crash
\* and both run a job: the map holds the two handles of the second threads.
C25_Witness ==
    /\ pool.start = number_of_workers
    /\ \A w \in Workers : wk[w].restarts = 1 /\ wk[w].pc = "claimed"
    /\ pool.thread_join_handles = [w \in Workers |-> 1]

\* C34: start_processing_task, finish_task and fail_task change, of the row
\* they are called with, state and updated_at alone, and fail_task
\* error_message too; id, metadata, task_type and created_at of the row stay
\* and every other row stays as it is.
C34_UpdateFrame ==
    [][\A c \in Clients, id \in DOMAIN tasks :
          start_processing_task(c, id) \/ finish_task(c, id) \/ fail_task(c, id) =>
             /\ DOMAIN tasks' = DOMAIN tasks
             /\ \A j \in DOMAIN tasks \ {id} : tasks'[j] = tasks[j]
             /\ tasks'[id].metadata = tasks[id].metadata
             /\ tasks'[id].task_type = tasks[id].task_type
             /\ tasks'[id].created_at = tasks[id].created_at
             /\ tasks'[id].updated_at = now
             /\ ~fail_task(c, id) => tasks'[id].error_message = tasks[id].error_message
      ]_vars

\* A row was failed and then finished at a later time than it was made: it
\* keeps its error_message, and the other row, of the same metadata, is as it
\* was inserted.
C34_Witness ==
    \E id, j \in DOMAIN tasks :
        /\ id # j
        /\ tasks[id].state = "Finished" /\ tasks[id].error_message # NoError
        /\ tasks[id].updated_at > tasks[id].created_at
        /\ tasks[j].metadata = tasks[id].metadata
        /\ tasks[j].state = "New" /\ tasks[j].updated_at = tasks[j].created_at

\* C35: remove_task(id) deletes the row of that id and no other, whatever the
\* metadata of the other rows, and these stay as they are;
\* remove_tasks_of_type(t) deletes the rows of task_type t and no other.
C35_RemoveFrame ==
    [][/\ \A c \in Clients, id \in 1..MaxTasks :
             remove_task(c, id) =>
                /\ DOMAIN tasks' = DOMAIN tasks \ {id}
                /\ \A j \in DOMAIN tasks' : tasks'[j] = tasks[j]
       /\ \A c \in Clients, type \in TaskTypes :
             remove_tasks_of_type(c, type) =>
                /\ DOMAIN tasks' = {j \in DOMAIN tasks : tasks[j].task_type # type}
                /\ \A j \in DOMAIN tasks' : tasks'[j] = tasks[j]
      ]_vars

\* Of two rows of the same metadata the first was removed by its id: the
\* second is there.
C35_Witness ==
    \E c \in Clients :
        /\ cl[c].op = "remove_task" /\ cl[c].ret = 1
        /\ nextId = 3
        /\ DOMAIN tasks = {2}
        /\ tasks[2].metadata = JobDoc

\* C32: the flag changes in the first step of shutdown() and in no other, from
\* Running to Shutdown, and never back; a thread that comes to the top of its
\* loop when the flag is Shutdown, in its first iteration if it was started
\* after shutdown() set the flag, returns from run_tasks and claims no row.
C32_FlagOnlyToShutdown ==
    [][/\ pool.shared_state = "Shutdown" => pool'.shared_state = "Shutdown"
       /\ pool'.shared_state # pool.shared_state =>
             pool.shutdown = "idle" /\ pool'.shutdown = "joining"
       /\ \A w \in Workers :
             pool.shared_state = "Shutdown" /\ wk[w].pc = "loop" /\ wk'[w] # wk[w] =>
                /\ wk'[w].pc = "exited"
                /\ wk'[w].task = NoTask
                /\ tasks' = tasks /\ locks' = locks /\ hist' = hist
      ]_vars

\* shutdown() drained the handle of the first thread of a worker; that thread
\* then died, the thread started in its place has returned from run_tasks,
\* and a row is still New.
C32_Witness ==
    \E w \in Workers, id \in DOMAIN tasks :
        /\ pool.shared_state = "Shutdown"
        /\ <<w, 0>> \in pool.joining
        /\ wk[w].restarts = 1 /\ wk[w].pc = "exited"
        /\ tasks[id].state = "New"

\* C31: after a panic in process_task the Drop of the Scheduler starts a new
\* scheduler thread, and scheduling goes on: that thread comes to scan.
C31_SchedulingContinues == (sch.pc = "start_new") ~> (sch.pc = "for")

\* C33: a periodic row of a period above error_margin + check_period that a
\* scan has advanced is loaded again only when now > scheduled_at - margin,
\* which is more than check_period after the advance; so the one-shot rows
\* pushed for it are made more than check_period apart.
C33_OneRowPerFiring ==
    [][/\ sch.pc = "sleep" /\ sch'.pc = "for" =>
             \A id \in DOMAIN sch'.todo :
                /\ periodic[id].scheduled_at # Null
                /\ periodic[id].period_in_seconds > error_margin_seconds + check_period
                => /\ now > periodic[id].scheduled_at - error_margin_seconds
                   /\ now > periodic[id].updated_at + check_period
       /\ sch.pc = "push_task" /\ sch'.pc = "schedule_next"
             /\ sch.todo[sch.task].period_in_seconds > error_margin_seconds + check_period =>
             \A t \in DOMAIN tasks :
                tasks[t].metadata = sch.todo[sch.task].metadata =>
                   now > tasks[t].created_at + check_period
      ]_vars

\* The row of the long period has fired twice, and a one-shot row was pushed
\* each time; a scan between the two has loaded nothing.
C33_Witness ==
    \E id \in DOMAIN periodic :
        /\ periodic[id].period_in_seconds = LongPeriod
        /\ DOMAIN tasks = {1, 2}
        /\ tasks[2].created_at > tasks[1].created_at + check_period
        /\ periodic[id].scheduled_at = now + LongPeriod
        /\ sch.pc = "for" /\ sch.todo = <<>>

\* The window of a row is over: no scan that starts from now on loads it.
Slipped(id) ==
    /\ periodic[id].scheduled_at # Null
    /\ now >= periodic[id].scheduled_at + error_margin_seconds
    /\ id \notin DOMAIN sch.todo

ActiveOf(id) ==
    {t \in DOMAIN tasks : Active(t) /\ tasks[t].metadata = periodic[id].metadata}

\* C37: a Some arm that finds a New or InProgress row of the job inserts no
\* row and goes on to the advance, which writes now + period_in_seconds; and
\* at any time at most one row of the job of a periodic row is New or
\* InProgress.
C37_OneActiveRowPerTemplate ==
    /\ [](\A id \in DOMAIN periodic : Cardinality(ActiveOf(id)) <= 1)
    /\ [][/\ \A id \in DOMAIN sch.todo :
                /\ sch.pc = "for" /\ sch'.task = id
                /\ find_task_by_metadata_query(sch.todo[id].metadata) # {}
                => sch'.pc = "schedule_next" /\ tasks' = tasks
          /\ sch.pc = "schedule_next" /\ sch'.pc = "for" =>
                /\ tasks' = tasks
                /\ periodic'[sch.task].scheduled_at =
                      now + periodic[sch.task].period_in_seconds
         ]_vars

\* The one row ever pushed was made before the periodic row was last
\* advanced, and a worker has claimed it; the scan that loaded the periodic
\* row after that advance has come back from push_task without a new row.
C37_Witness ==
    /\ sch.pc = "schedule_next"
    /\ nextId = 2
    /\ 1 \in ActiveOf(sch.task)
    /\ tasks[1].state = "InProgress"
    /\ sch.todo[sch.task].updated_at > tasks[1].created_at

\* C38: with a worker that goes on and meets no crash and no database error,
\* every New row its filter matches leaves the state New in the end, claimed
\* by the worker; and a fetch of the worker never takes a row while an older
\* unlocked New row of its filter is there.
C38_NoStarvation ==
    /\ \A id \in 1..MaxTasks :
          (id \in Matching) ~> ~(id \in DOMAIN tasks /\ tasks[id].state = "New")
    /\ [][\A w \in Workers, id \in DOMAIN tasks :
             FetchOf(w, id) =>
                \A j \in Matching :
                   ~LockedByOther(j, w) => tasks[id].created_at <= tasks[j].created_at
         ]_vars

\* The worker has fetched a row, and a New row of its filter that was made
\* later waits.
C38_Witness ==
    \E w \in Workers, k \in Matching :
        /\ wk[w].pc = "fetched"
        /\ tasks[wk[w].task].created_at < tasks[k].created_at
        /\ hist[k].claims = 0

====
